---- MODULE Spec2Model ----
(***************************************************************************)
(* A model of pd's state Writer (src/pd/src/state/writer.rs) and of the    *)
(* stateless transaction verifier (src/pd/src/verify/stateless.rs).        *)
(*                                                                         *)
(* The Writer is modelled as a relational store (db), the pending writes   *)
(* of each call's database transaction (dbtx), and the four watch          *)
(* channels.  A call is split where the code's effects become visible to   *)
(* others: the queries of the transaction (invisible until commit), the    *)
(* read of the anchors window, the commit, and each send.                  *)
(*                                                                         *)
(* Specifications:                                                         *)
(*   Spec         one driver, one call at a time, heights in order         *)
(*   RestartSpec  Spec, with init_caches run between calls                 *)
(*   PublishSpec  RestartSpec on channels that lost their receivers        *)
(*   RaceSpec     two callers with commit_block calls in flight at once    *)
(*   WindowSpec   the update of the anchors window, on every window        *)
(*   VerifySpec   verify_stateless, on every bounded transaction           *)
(***************************************************************************)
EXTENDS Integers, Sequences, FiniteSets, TLC

\* ------------------------------------------------------------------ bounds
\* Heights of the blocks the driver submits: 1..MaxHeight.
MaxHeight == 3
\* Size of the anchors window.  The crate's constant is larger; the code is
\* parametric in it and the model keeps it below MaxHeight so that the
\* window fills up and evicts.
NUM_RECENT_ANCHORS == 2
\* Blocks at heights that are multiples of EpochDuration end an epoch; only
\* they may carry the next epoch's rates.
EpochDuration == 2
\* Transactions handed to verify_stateless have at most MaxActions actions.
MaxActions == 3
\* Heights of the blocks two concurrent callers submit: 1..MaxRaceHeight.
MaxRaceHeight == 2

\* Option<T>: None, or Some(x); the value of Some(x) is x[1].
None == <<>>
Some(x) == <<x>>

Procs == {"d1", "d2"}
\* The single driver that owns the Writer handle under the serial discipline.
Driver == "d1"

Nullifiers == {1, 2}

\* --------------------------------------------------------------- encodings
\* A note commitment tree is modelled by the set of commitments it holds.
\* merkle::Root of a note commitment tree.
root2(tree) == <<"root", tree>>
\* bincode::serialize of the tree / serde_json::to_vec of the genesis config.
serialize(tree) == <<"bincode", tree>>
deserialize(bytes) == bytes[2]
to_vec(genesis_config) == <<"json", genesis_config>>
\* jellyfish::Key::NoteCommitmentAnchor.hash()
NoteCommitmentAnchorKey == <<"hash", "NoteCommitmentAnchor">>
\* 1_0000_0000: the fixed-point representation of 1.0
ExchangeRateOne == 100000000

\* The elements of a set of integers in ascending order (BTreeSet iteration).
RECURSIVE Ascending(_)
Ascending(S) ==
    IF S = {} THEN <<>>
    ELSE LET m == CHOOSE x \in S : \A y \in S : x <= y
         IN <<m>> \o Ascending(S \ {m})

\* ------------------------------------------------------------------ inputs
DefaultChainParams == "default"
GenesisValidator(v) ==
    [validator |-> [identity_key |-> v,
                    funding_streams |-> {[address |-> v, rate_bps |-> 500]}],
     power |-> 1000]
GenesisValidators(vs) == { GenesisValidator(v) : v \in vs }
GenesisConfigs ==
    { [chain_params |-> "cp1", validators |-> GenesisValidators({})],
      [chain_params |-> "cp1", validators |-> GenesisValidators({"V1"})],
      [chain_params |-> "cp2", validators |-> GenesisValidators({"V1", "V2"})] }

NextBaseRate(h) ==
    [epoch_index |-> (h \div EpochDuration) + 1, base_reward_rate |-> 1,
     base_exchange_rate |-> ExchangeRateOne + 1]
NextRates(h) ==
    { [identity_key |-> "V1", epoch_index |-> (h \div EpochDuration) + 1,
       validator_reward_rate |-> 1,
       validator_exchange_rate |-> ExchangeRateOne + 1] }

\* The PendingBlocks the assembler may hand over for height h when the chain's
\* note commitment tree is `tree`.  A block either carries a note (which
\* extends the tree), a delegation change, a supply update and new voting
\* powers, or none of them (and then the tree, hence its root, is the
\* previous block's).
PendingBlocks(h, tree) ==
    { [height |-> h,
       epoch |-> [index |-> h \div EpochDuration],
       note_commitment_tree |-> IF full THEN tree \cup {h} ELSE tree,
       notes |-> IF full
                 THEN {[note_commitment |-> h, position |-> Cardinality(tree)]}
                 ELSE {},
       spent_nullifiers |-> s,
       delegation_changes |->
           IF full THEN {[identity_key |-> "V1", delta |-> 1]} ELSE {},
       supply_updates |->
           IF full THEN {[asset_id |-> "a1", denom |-> "upenumbra",
                          total_supply |-> h]} ELSE {},
       next_base_rate |-> IF b THEN Some(NextBaseRate(h)) ELSE None,
       next_rates |-> IF r THEN Some(NextRates(h)) ELSE None,
       next_validator_statuses |->
           IF full
           THEN Some({[identity_key |-> "V1", voting_power |-> 1000 + h]})
           ELSE None] :
        s \in SUBSET Nullifiers, full \in BOOLEAN,
        b \in IF h % EpochDuration = 0 THEN BOOLEAN ELSE {FALSE},
        r \in IF h % EpochDuration = 0 THEN BOOLEAN ELSE {FALSE} }

\* ------------------------------------------------------------------- state
VARIABLES
    db,                 \* the committed relational state (self.pool)
    chain_params_tx,    \* watch::Sender<ChainParams>: the latest value
    height_tx,          \* watch::Sender<block::Height>
    next_rate_data_tx,  \* watch::Sender<RateDataById>
    valid_anchors_tx,   \* watch::Sender<VecDeque<merkle::Root>>
    receivers,          \* the channels that have at least one receiver
    call,               \* per caller: the call in flight, if any
    transaction,        \* verify_stateless: the transaction (self)
    vpc,                \* verify_stateless: "idle", "binding", "actions", "done"
    next_action,        \* verify_stateless: index of the action the loop is at
    spent_nullifiers,   \* verify_stateless: BTreeSet<Nullifier>
    new_notes,          \* verify_stateless: BTreeMap<note::Commitment, NoteData>
    delegations,        \* verify_stateless: Vec<Delegate>
    undelegations,      \* verify_stateless: Vec<Undelegate>
    vret                \* verify_stateless: the Result returned

wvars == <<db, chain_params_tx, height_tx, next_rate_data_tx,
           valid_anchors_tx, receivers, call>>
vvars == <<transaction, vpc, next_action, spent_nullifiers, new_notes,
           delegations, undelegations, vret>>

\* An empty table set; also the shape of a transaction's pending writes.
EmptyTables ==
    [gc |-> None, nct |-> None, jmt |-> {}, blocks |-> {}, notes |-> {},
     nullifiers |-> {}, delegation_changes |-> {}, assets |-> {},
     base_rates |-> {}, validator_rates |-> {}, validators |-> {},
     validator_fundingstreams |-> {}, voting_power |-> {}]

\* The four channels, as one record (used for snapshots).
Channels ==
    [chain_params |-> chain_params_tx, height |-> height_tx,
     next_rate_data |-> next_rate_data_tx, valid_anchors |-> valid_anchors_tx]

\* The names of the four channels.
AllChannels == {"chain_params", "height", "next_rate_data", "valid_anchors"}

\* watch::Sender::send(value), its Result dropped by `let _ =`: the value
\* the channel holds afterwards.  "Sends fail if every receiver has been
\* dropped" (line 47), and a failed send leaves the channel's value alone.
Sent(channel, old, value) ==
    IF channel \in receivers THEN value ELSE old

Idle ==
    [op |-> "idle", pc |-> "idle", arg |-> None, dbtx |-> EmptyTables,
     app_hash |-> None, nct_anchor |-> None, valid_anchors |-> <<>>,
     next_rate_data |-> None, chain_params |-> None, height |-> None,
     ret |-> None, pre |-> None, faulted |-> FALSE]

\* -------------------------------------------------- the relational store
\* Rows of `table` that an upsert/update keyed by `key` replaces.
Replaced(table, rows, key) ==
    { old \in table : \E new \in rows : old[key] = new[key] }

\* dbtx.commit(): the pending writes of a transaction become visible.
Apply(d, tx) ==
    [gc |-> IF tx.gc # None THEN tx.gc ELSE d.gc,
     nct |-> IF tx.nct # None THEN tx.nct ELSE d.nct,
     jmt |-> d.jmt \cup tx.jmt,
     blocks |-> d.blocks \cup tx.blocks,
     notes |-> d.notes \cup tx.notes,
     nullifiers |-> d.nullifiers \cup tx.nullifiers,
     delegation_changes |-> d.delegation_changes \cup tx.delegation_changes,
     assets |-> (d.assets \ Replaced(d.assets, tx.assets, "asset_id"))
                  \cup tx.assets,
     base_rates |-> d.base_rates \cup tx.base_rates,
     validator_rates |-> d.validator_rates \cup tx.validator_rates,
     validators |->
        { IF \E u \in tx.voting_power : u.identity_key = v.identity_key
          THEN [v EXCEPT !.voting_power =
                  (CHOOSE u \in tx.voting_power :
                      u.identity_key = v.identity_key).voting_power]
          ELSE v : v \in d.validators \cup tx.validators },
     validator_fundingstreams |->
        d.validator_fundingstreams \cup tx.validator_fundingstreams,
     voting_power |-> {}]

\* The fault injected into a call: a site, or none.
NoFault == "none"

\* The outcome of one query of a transaction: `st` is [ok, err, tx]; a query
\* after a failed one is never issued (the `?` returned).  The query fails
\* when the database reports an error: an injected fault at `site`, or a
\* violated constraint.
Exec(st, site, fail, constraint_ok, newtx) ==
    IF ~st.ok THEN st
    ELSE IF fail = site \/ ~constraint_ok
         THEN [ok |-> FALSE, err |-> site, tx |-> st.tx]
         ELSE [ok |-> TRUE, err |-> None, tx |-> newtx]

Started == [ok |-> TRUE, err |-> None, tx |-> EmptyTables]

\* The queries of a loop over `rows`, one per row: none is issued, and none
\* can fail, when there is no row.
ExecAll(st, site, fail, rows, newtx) ==
    IF rows = {} THEN st ELSE Exec(st, site, fail, TRUE, newtx)

Failed(st, site) == [ok |-> FALSE, err |-> site, tx |-> st.tx]

\* (mutant) the 'gc' insert written like the 'nct' one, with ON CONFLICT (id)
\* DO UPDATE.
InsertGenesisBlob_Upsert(d, st, genesis_bytes, fail) ==
    Exec(st, "gc", fail, TRUE, [st.tx EXCEPT !.gc = Some(genesis_bytes)])

\* blobs.id is unique: the plain INSERT of 'gc' raises an error when the row
\* exists (the ON CONFLICT clause is left out for that purpose).
InsertGenesisBlob(d, st, genesis_bytes, fail) ==
    Exec(st, "gc", fail, d.gc = None /\ st.tx.gc = None,
         [st.tx EXCEPT !.gc = Some(genesis_bytes)])

\* The two base_rates rows of genesis, for epochs 0 and 1.
InsertGenesisBaseRates(st, fail) ==
    Exec(st, "base_rates", fail, TRUE,
         [st.tx EXCEPT !.base_rates = @ \cup
            { [epoch |-> epoch, base_reward_rate |-> 0,
               base_exchange_rate |-> ExchangeRateOne] : epoch \in {0, 1} }])

\* The body of the loop over genesis_config.validators, for all of them:
\* (the rows of all validators are taken table by table; inside a transaction
\* the order of the inserts shows only in which query fails first)
\* the validators row, the funding streams, the two validator_rates rows.
InsertGenesisValidators(st, validators, fail) ==
    LET s1 == ExecAll(st, "validators", fail, validators,
                [st.tx EXCEPT !.validators = @ \cup
                   { [identity_key |-> vp.validator.identity_key,
                      voting_power |-> vp.power,
                      validator_state |-> "Active",
                      unbonding_epoch |-> None] : vp \in validators }])
        s2 == ExecAll(s1, "validator_fundingstreams", fail, validators,
                [s1.tx EXCEPT !.validator_fundingstreams = @ \cup
                   UNION { { [identity_key |-> vp.validator.identity_key,
                              address |-> fs.address,
                              rate_bps |-> fs.rate_bps] :
                               fs \in vp.validator.funding_streams } :
                           vp \in validators }])
    IN  ExecAll(s2, "validator_rates", fail, validators,
             [s2.tx EXCEPT !.validator_rates = @ \cup
                { [identity_key |-> vp.validator.identity_key,
                   epoch |-> epoch,
                   validator_reward_rate |-> 0,
                   validator_exchange_rate |-> ExchangeRateOne] :
                    vp \in validators, epoch \in {0, 1} }])

\* (mutant) the genesis rate data labelled with epoch 0.
GenesisNextRateData_EpochZero(validators) ==
    [ik \in { vp.validator.identity_key : vp \in validators } |->
        [identity_key |-> ik, epoch_index |-> 0,
         validator_reward_rate |-> 0,
         validator_exchange_rate |-> ExchangeRateOne]]

\* next_rate_data as commit_genesis accumulates it: identity -> RateData.
GenesisNextRateData(validators) ==
    [ik \in { vp.validator.identity_key : vp \in validators } |->
        [identity_key |-> ik, epoch_index |-> 1,
         validator_reward_rate |-> 0,
         validator_exchange_rate |-> ExchangeRateOne]]

\* The sites of commit_genesis at which the database may report an error.
GenesisFaults ==
    {"begin", "gc", "base_rates", "validators", "validator_fundingstreams",
     "validator_rates"}

\* commit_genesis up to (not including) the commit: the queries issued on
\* dbtx, against the committed state d.
commit_genesis_tx(d, genesis_config, fail) ==
    LET s0 == Exec(Started, "begin", fail, TRUE, EmptyTables)
        s1 == InsertGenesisBlob(d, s0, to_vec(genesis_config), fail)
        s2 == InsertGenesisBaseRates(s1, fail)
    IN  InsertGenesisValidators(s2, genesis_config.validators, fail)

\* ------------------------------------------------ the authenticated store
\* The key-value content of the Jellyfish Merkle tree at the latest version
\* below `version`, as read through the reader (committed nodes only).
JmtContent(nodes, version) ==
    LET older == { n \in nodes : n.version < version }
    IN  IF older = {} THEN {}
        ELSE (CHOOSE n \in older : \A m \in older : m.version <= n.version).kv

\* The root hash of a tree: a digest of its whole content.
JmtRootHash(kv) == <<"jmt_root", kv>>

\* (mutant) the root hash returned is the one of the tree before the put.
put_value_set_StaleRoot(nodes, key, value, version) ==
    LET base == JmtContent(nodes, version)
        kv == { e \in base : e[1] # key } \cup {<<key, value>>}
    IN  [root_hash |-> JmtRootHash(base),
         node_batch |-> {[version |-> version, kv |-> kv]}]

\* JellyfishMerkleTree::new(reader).put_value_set(vec![(key, value)], version):
\* the new root hash and the batch of nodes to write.
put_value_set(nodes, key, value, version) ==
    LET base == JmtContent(nodes, version)
        kv == { e \in base : e[1] # key } \cup {<<key, value>>}
    IN  [root_hash |-> JmtRootHash(kv),
         node_batch |-> {[version |-> version, kv |-> kv]}]

\* ---------------------------------------------------------- commit_block
\* nullifiers.nullifier is unique: whether inserting nf would violate it.
NullifierRecorded(d, tx, nf) ==
    \E r \in d.nullifiers \cup tx.nullifiers : r.nullifier = nf

\* (mutant) the insert written with ON CONFLICT DO NOTHING: a recorded
\* nullifier is skipped without an error.
InsertNullifier_OnConflictDoNothing(d, st, nf, height) ==
    IF ~st.ok \/ NullifierRecorded(d, st.tx, nf) THEN st
    ELSE [st EXCEPT !.tx.nullifiers =
              @ \cup {[nullifier |-> nf, height |-> height]}]

\* One "INSERT INTO nullifiers VALUES ($1, $2)", its error propagated by `?`.
InsertNullifier(d, st, nf, height) ==
    IF ~st.ok THEN st
    ELSE IF NullifierRecorded(d, st.tx, nf) THEN Failed(st, "nullifiers")
    ELSE [st EXCEPT !.tx.nullifiers =
              @ \cup {[nullifier |-> nf, height |-> height]}]

\* The loop over block.spent_nullifiers, in the set's order.
RECURSIVE InsertNullifiers(_, _, _, _)
InsertNullifiers(d, st, todo, height) ==
    IF todo = <<>> THEN st
    ELSE InsertNullifiers(d, InsertNullifier(d, st, Head(todo), height),
                          Tail(todo), height)

\* The sites of commit_block at which the database may report an error.
BlockFaults ==
    {"begin", "nct", "jmt_put", "jmt_write", "blocks", "notes", "nullifiers",
     "delegation_changes", "assets", "base_rates", "validator_rates",
     "voting_power"}

\* The rate rows of the block: written only when the block carries both the
\* next base rate and the next validator rates.
InsertRates(st, block, fail) ==
    IF block.next_base_rate # None /\ block.next_rates # None
    THEN LET base_rate_data == block.next_base_rate[1]
             s1 == Exec(st, "base_rates", fail, TRUE,
                     [st.tx EXCEPT !.base_rates = @ \cup
                        {[epoch |-> base_rate_data.epoch_index,
                          base_reward_rate |->
                              base_rate_data.base_reward_rate,
                          base_exchange_rate |->
                              base_rate_data.base_exchange_rate]}])
         IN  ExecAll(s1, "validator_rates", fail, block.next_rates[1],
                  [s1.tx EXCEPT !.validator_rates = @ \cup
                     { [identity_key |-> rate.identity_key,
                        epoch |-> rate.epoch_index,
                        validator_reward_rate |-> rate.validator_reward_rate,
                        validator_exchange_rate |->
                            rate.validator_exchange_rate] :
                         rate \in block.next_rates[1] }])
    ELSE st

\* The voting power updates of the block, if it carries any.
UpdateVotingPower(st, block, fail) ==
    IF block.next_validator_statuses # None
    THEN ExecAll(st, "voting_power", fail, block.next_validator_statuses[1],
              [st.tx EXCEPT !.voting_power = @ \cup
                 block.next_validator_statuses[1]])
    ELSE st

\* commit_block up to (not including) the read of the anchors window: the
\* queries issued on dbtx, against the committed state d.  Yields the state
\* of the transaction, the note commitment tree's root and the app hash.
\* block.height and block.epoch are set (the code panics otherwise; the
\* assembler sets both).
commit_block_tx(d, block, fail) ==
    LET nct_anchor == root2(block.note_commitment_tree)
        height == block.height
        s0 == Exec(Started, "begin", fail, TRUE, EmptyTables)
        s1 == Exec(s0, "nct", fail, TRUE,
                [s0.tx EXCEPT !.nct =
                   Some(serialize(block.note_commitment_tree))])
        put == put_value_set(d.jmt, NoteCommitmentAnchorKey, nct_anchor,
                             height)
        s2 == Exec(s1, "jmt_put", fail, TRUE, s1.tx)
        s3 == Exec(s2, "jmt_write", fail, TRUE,
                [s2.tx EXCEPT !.jmt = @ \cup put.node_batch])
        app_hash == put.root_hash
        s4 == Exec(s3, "blocks", fail, TRUE,
                [s3.tx EXCEPT !.blocks = @ \cup
                   {[height |-> height, nct_anchor |-> nct_anchor,
                     app_hash |-> app_hash]}])
        s5 == ExecAll(s4, "notes", fail, block.notes,
                [s4.tx EXCEPT !.notes = @ \cup
                   { [note_commitment |-> n.note_commitment,
                      position |-> n.position,
                      height |-> height] : n \in block.notes }])
        s6 == IF s5.ok /\ fail = "nullifiers" /\ block.spent_nullifiers # {}
              THEN Failed(s5, "nullifiers")
              ELSE InsertNullifiers(d, s5, Ascending(block.spent_nullifiers),
                                    height)
        s7 == ExecAll(s6, "delegation_changes", fail, block.delegation_changes,
                [s6.tx EXCEPT !.delegation_changes = @ \cup
                   { [identity_key |-> c.identity_key,
                      epoch |-> block.epoch.index,
                      delta |-> c.delta] : c \in block.delegation_changes }])
        s8 == ExecAll(s7, "assets", fail, block.supply_updates,
                [s7.tx EXCEPT !.assets = @ \cup block.supply_updates])
        s9 == InsertRates(s8, block, fail)
        s10 == UpdateVotingPower(s9, block, fail)
    IN  [st |-> s10, nct_anchor |-> nct_anchor, app_hash |-> app_hash]

\* (mutant) the window grown without evicting its oldest entry.
NextValidAnchors_NoEvict(valid_anchors, nct_anchor) ==
    <<nct_anchor>> \o valid_anchors

\* (mutant) the tail dropped only when the window is longer than num.
PushAnchor_EvictWhenAbove(valid_anchors, nct_anchor, num) ==
    LET kept == IF Len(valid_anchors) > num
                THEN SubSeq(valid_anchors, 1, Len(valid_anchors) - 1)
                ELSE valid_anchors
    IN  <<nct_anchor>> \o kept

\* Lines 338-341 for a window bound of num: pop_back() if the window holds
\* num entries or more, then push_front(nct_anchor).
PushAnchor(valid_anchors, nct_anchor, num) ==
    LET kept == IF Len(valid_anchors) >= num
                THEN SubSeq(valid_anchors, 1, Len(valid_anchors) - 1)
                ELSE valid_anchors
    IN  <<nct_anchor>> \o kept

\* Lines 337-341: the new anchors window from the published one.
NextValidAnchors(valid_anchors, nct_anchor) ==
    PushAnchor(valid_anchors, nct_anchor, NUM_RECENT_ANCHORS)

\* Lines 342-347: block.next_rates collected into a map by identity key.
CollectNextRateData(block) ==
    IF block.next_rates = None THEN None
    ELSE Some([ik \in { rd.identity_key : rd \in block.next_rates[1] } |->
                CHOOSE rd \in block.next_rates[1] : rd.identity_key = ik])

\* ----------------------------------------------------------------- actions
Ok(value) == [ok |-> TRUE, value |-> value]
Err(site) == [ok |-> FALSE, err |-> site]

\* The highest height of the blocks table (0 when it is empty).
TopHeight(d) ==
    IF d.blocks = {} THEN 0
    ELSE CHOOSE h \in { b.height : b \in d.blocks } :
            \A b \in d.blocks : b.height <= h

\* The chain's note commitment tree, as persisted in the 'nct' blob.
ChainTree(d) == IF d.nct = None THEN {} ELSE deserialize(d.nct[1])

\* -------------------------------------------------- the private reader
\* The rows of `rows` with the n highest heights, highest first.
RECURSIVE HighestFirst(_, _)
HighestFirst(rows, n) ==
    IF rows = {} \/ n = 0 THEN <<>>
    ELSE LET top == CHOOSE b \in rows : \A c \in rows : c.height <= b.height
         IN  <<top>> \o HighestFirst(rows \ {top}, n - 1)

\* private_reader.recent_anchors(n): the anchors of the n most recent
\* blocks, newest first.
recent_anchors(d, n) ==
    LET recent == HighestFirst(d.blocks, n)
    IN  [i \in 1..Len(recent) |-> recent[i].nct_anchor]

\* serde_json::from_slice of the stored genesis config.
from_slice(bytes) == bytes[2]

\* private_reader.genesis_configuration(): the stored genesis config, or the
\* default one (the default chain parameters, no validator) before genesis.
genesis_configuration(d) ==
    IF d.gc = None
    THEN [chain_params |-> DefaultChainParams, validators |-> {}]
    ELSE from_slice(d.gc[1])

\* private_reader.next_rate_data(): the validator rates of the latest epoch
\* that has any, by identity key.
next_rate_data(d) ==
    LET latest == { r \in d.validator_rates :
                      \A o \in d.validator_rates : o.epoch <= r.epoch }
    IN  [ik \in { r.identity_key : r \in latest } |->
            LET r == CHOOSE r \in latest : r.identity_key = ik
            IN  [identity_key |-> ik, epoch_index |-> r.epoch,
                 validator_reward_rate |-> r.validator_reward_rate,
                 validator_exchange_rate |-> r.validator_exchange_rate]]

\* call[p].faulted records that the database reported an error to the call.
\* The error a failure at `site` surfaces as: the pool's (no transaction was
\* begun), a query's, or the commit's.
ErrorAt(site) ==
    IF site \in {"begin", "commit"} THEN site ELSE "query"

\* The call returns an error: its transaction is dropped, hence rolled back.
Abort(c, site) ==
    [c EXCEPT !.pc = "done", !.dbtx = EmptyTables, !.ret = Err(ErrorAt(site))]

\* The unique index on nullifiers also covers rows committed by others while
\* the transaction was open: it cannot commit a nullifier recorded meanwhile.
CommitConflict(d, tx) ==
    \E r \in tx.nullifiers : NullifierRecorded(d, EmptyTables, r.nullifier)

\* The driver calls commit_genesis(genesis_config).
CallCommitGenesis(p) ==
    /\ call[p].op = "idle"
    /\ \E genesis_config \in GenesisConfigs :
         call' = [call EXCEPT ![p] =
                    [Idle EXCEPT !.op = "commit_genesis", !.pc = "tx",
                                 !.arg = genesis_config,
                                 !.pre = [db |-> db, channels |-> Channels]]]
    /\ UNCHANGED <<db, chain_params_tx, height_tx, next_rate_data_tx,
                   valid_anchors_tx>>
    /\ UNCHANGED <<receivers, vvars>>

\* (mutant) the 'gc' insert executed on the pool instead of on dbtx: it is
\* committed on its own, whatever becomes of the transaction.
GenesisTx_BlobOnPool(p) ==
    /\ call[p].op = "commit_genesis" /\ call[p].pc = "tx"
    /\ \E fail \in GenesisFaults \cup {NoFault} :
         LET st == commit_genesis_tx(db, call[p].arg, fail)
         IN  /\ call' = [call EXCEPT ![p] =
                  IF st.ok
                  THEN [@ EXCEPT !.pc = "commit", !.dbtx = st.tx,
                          !.next_rate_data =
                             Some(GenesisNextRateData(call[p].arg.validators))]
                  ELSE Abort([@ EXCEPT !.faulted = TRUE], st.err)]
             /\ db' = IF fail \in {"begin", "gc"} \/ db.gc # None THEN db
                      ELSE [db EXCEPT !.gc = Some(to_vec(call[p].arg))]
    /\ UNCHANGED <<chain_params_tx, height_tx, next_rate_data_tx,
                   valid_anchors_tx>>
    /\ UNCHANGED <<receivers, vvars>>

\* commit_genesis, lines 65-173: the inserts on dbtx.
GenesisTx(p) ==
    /\ call[p].op = "commit_genesis" /\ call[p].pc = "tx"
    /\ \E fail \in GenesisFaults \cup {NoFault} :
         LET st == commit_genesis_tx(db, call[p].arg, fail)
         IN  call' = [call EXCEPT ![p] =
                IF st.ok
                THEN [@ EXCEPT !.pc = "commit", !.dbtx = st.tx,
                        !.next_rate_data =
                            Some(GenesisNextRateData(call[p].arg.validators))]
                ELSE Abort([@ EXCEPT !.faulted = TRUE], st.err)]
    /\ UNCHANGED <<db, chain_params_tx, height_tx, next_rate_data_tx,
                   valid_anchors_tx>>
    /\ UNCHANGED <<receivers, vvars>>

\* commit_genesis, line 177: dbtx.commit().await?
GenesisCommit(p) ==
    /\ call[p].op = "commit_genesis" /\ call[p].pc = "commit"
    /\ \E fail \in BOOLEAN :
         IF fail \/ CommitConflict(db, call[p].dbtx)
         THEN /\ call' = [call EXCEPT ![p] =
                            Abort([@ EXCEPT !.faulted = TRUE], "commit")]
              /\ UNCHANGED db
         ELSE /\ db' = Apply(db, call[p].dbtx)
              /\ call' = [call EXCEPT ![p] =
                            [@ EXCEPT !.pc = "send_chain_params",
                                      !.dbtx = EmptyTables]]
    /\ UNCHANGED <<chain_params_tx, height_tx, next_rate_data_tx,
                   valid_anchors_tx>>
    /\ UNCHANGED <<receivers, vvars>>

\* commit_genesis, line 180: chain_params_tx.send(chain_params)
GenesisSendChainParams(p) ==
    /\ call[p].op = "commit_genesis" /\ call[p].pc = "send_chain_params"
    /\ chain_params_tx' = Sent("chain_params", chain_params_tx,
                                call[p].arg.chain_params)
    /\ call' = [call EXCEPT ![p].pc = "send_next_rate_data"]
    /\ UNCHANGED <<db, height_tx, next_rate_data_tx, valid_anchors_tx>>
    /\ UNCHANGED <<receivers, vvars>>

\* commit_genesis, lines 181-186: next_rate_data_tx.send(..); Ok(())
GenesisSendNextRateData(p) ==
    /\ call[p].op = "commit_genesis" /\ call[p].pc = "send_next_rate_data"
    /\ next_rate_data_tx' = Sent("next_rate_data", next_rate_data_tx,
                                  call[p].next_rate_data[1])
    /\ call' = [call EXCEPT ![p].pc = "done", ![p].ret = Ok("unit")]
    /\ UNCHANGED <<db, chain_params_tx, height_tx, valid_anchors_tx>>
    /\ UNCHANGED <<receivers, vvars>>

\* The driver calls commit_block(block): after genesis, for the height that
\* follows the last committed one, with the block the assembler built.
CallCommitBlock(p) ==
    /\ call[p].op = "idle"
    /\ db.gc # None
    /\ TopHeight(db) < MaxHeight
    /\ \E block \in PendingBlocks(TopHeight(db) + 1, ChainTree(db)) :
         call' = [call EXCEPT ![p] =
                    [Idle EXCEPT !.op = "commit_block", !.pc = "tx",
                                 !.arg = block,
                                 !.pre = [db |-> db, channels |-> Channels]]]
    /\ UNCHANGED <<db, chain_params_tx, height_tx, next_rate_data_tx,
                   valid_anchors_tx>>
    /\ UNCHANGED <<receivers, vvars>>

\* The first query of commit_block upserts the row 'nct' of blobs (lines
\* 196-204); the database lets one open transaction at a time write a row, so
\* the upsert of caller p waits while another caller's transaction, which
\* has written the row, is neither committed nor rolled back.
NctRowLocked(p) ==
    \E q \in Procs \ {p} :
        call[q].op = "commit_block" /\ call[q].pc \in {"window", "commit"}

\* A second caller calls commit_block while the call of another is in
\* flight, with the block the assembler built on top of that one.
CallCommitBlockAhead(p) ==
    /\ call[p].op = "idle"
    /\ \E q \in Procs \ {p} :
         /\ call[q].op = "commit_block" /\ call[q].pc # "done"
         /\ call[q].arg.height < MaxHeight
         /\ \E block \in PendingBlocks(call[q].arg.height + 1,
                                       call[q].arg.note_commitment_tree) :
              call' = [call EXCEPT ![p] =
                         [Idle EXCEPT !.op = "commit_block", !.pc = "tx",
                                      !.arg = block,
                                      !.pre = [db |-> db,
                                               channels |-> Channels]]]
    /\ UNCHANGED <<db, chain_params_tx, height_tx, next_rate_data_tx,
                   valid_anchors_tx>>
    /\ UNCHANGED <<receivers, vvars>>

\* (mutant) the 'nct' upsert executed on the pool instead of on dbtx: it is
\* committed on its own, whatever becomes of the transaction.
BlockTx_NctOnPool(p) ==
    /\ call[p].op = "commit_block" /\ call[p].pc = "tx"
    /\ ~NctRowLocked(p)
    /\ \E fail \in BlockFaults \cup {NoFault} :
         LET r == commit_block_tx(db, call[p].arg, fail)
         IN  /\ call' = [call EXCEPT ![p] =
                  IF r.st.ok
                  THEN [@ EXCEPT !.pc = "window", !.dbtx = r.st.tx,
                          !.nct_anchor = r.nct_anchor,
                          !.app_hash = r.app_hash]
                  ELSE Abort([@ EXCEPT !.faulted = TRUE], r.st.err)]
             /\ db' = IF fail \in {"begin", "nct"} THEN db
                      ELSE [db EXCEPT !.nct =
                              Some(serialize(call[p].arg.note_commitment_tree))]
    /\ UNCHANGED <<chain_params_tx, height_tx, next_rate_data_tx,
                   valid_anchors_tx>>
    /\ UNCHANGED <<receivers, vvars>>

\* commit_block, lines 192-335: the queries on dbtx.
BlockTx(p) ==
    /\ call[p].op = "commit_block" /\ call[p].pc = "tx"
    /\ ~NctRowLocked(p)
    /\ \E fail \in BlockFaults \cup {NoFault} :
         LET r == commit_block_tx(db, call[p].arg, fail)
         IN  call' = [call EXCEPT ![p] =
                IF r.st.ok
                THEN [@ EXCEPT !.pc = "window", !.dbtx = r.st.tx,
                        !.nct_anchor = r.nct_anchor,
                        !.app_hash = r.app_hash]
                ELSE Abort([@ EXCEPT !.faulted = TRUE], r.st.err)]
    /\ UNCHANGED <<db, chain_params_tx, height_tx, next_rate_data_tx,
                   valid_anchors_tx>>
    /\ UNCHANGED <<receivers, vvars>>

\* (mutant) the new root pushed to the back of the window, the front dropped.
BlockWindow_PushBack(p) ==
    /\ call[p].op = "commit_block" /\ call[p].pc = "window"
    /\ call' = [call EXCEPT ![p] =
                  [@ EXCEPT !.pc = "commit",
                     !.valid_anchors =
                         (IF Len(valid_anchors_tx) >= NUM_RECENT_ANCHORS
                          THEN Tail(valid_anchors_tx)
                          ELSE valid_anchors_tx) \o <<call[p].nct_anchor>>,
                     !.next_rate_data = CollectNextRateData(call[p].arg)]]
    /\ UNCHANGED <<db, chain_params_tx, height_tx, next_rate_data_tx,
                   valid_anchors_tx>>
    /\ UNCHANGED <<receivers, vvars>>

\* commit_block, lines 337-347: the new window, from the published one, and
\* the next rate data, both kept in locals until after the commit.
BlockWindow(p) ==
    /\ call[p].op = "commit_block" /\ call[p].pc = "window"
    /\ call' = [call EXCEPT ![p] =
                  [@ EXCEPT !.pc = "commit",
                     !.valid_anchors =
                         NextValidAnchors(valid_anchors_tx, call[p].nct_anchor),
                     !.next_rate_data = CollectNextRateData(call[p].arg)]]
    /\ UNCHANGED <<db, chain_params_tx, height_tx, next_rate_data_tx,
                   valid_anchors_tx>>
    /\ UNCHANGED <<receivers, vvars>>

\* (mutant) the height and the window sent before the commit is awaited.
BlockCommit_SendFirst(p) ==
    /\ call[p].op = "commit_block" /\ call[p].pc = "commit"
    /\ height_tx' = Sent("height", height_tx, call[p].arg.height)
    /\ valid_anchors_tx' = Sent("valid_anchors", valid_anchors_tx,
                                 call[p].valid_anchors)
    /\ \E fail \in BOOLEAN :
         IF fail \/ CommitConflict(db, call[p].dbtx)
         THEN /\ call' = [call EXCEPT ![p] =
                            Abort([@ EXCEPT !.faulted = TRUE], "commit")]
              /\ UNCHANGED db
         ELSE /\ db' = Apply(db, call[p].dbtx)
              /\ call' = [call EXCEPT ![p] =
                            [@ EXCEPT !.pc = "send_height",
                                      !.dbtx = EmptyTables]]
    /\ UNCHANGED <<chain_params_tx, next_rate_data_tx>>
    /\ UNCHANGED <<receivers, vvars>>

\* commit_block, line 350: dbtx.commit().await?
BlockCommit(p) ==
    /\ call[p].op = "commit_block" /\ call[p].pc = "commit"
    /\ \E fail \in BOOLEAN :
         IF fail \/ CommitConflict(db, call[p].dbtx)
         THEN /\ call' = [call EXCEPT ![p] =
                            Abort([@ EXCEPT !.faulted = TRUE], "commit")]
              /\ UNCHANGED db
         ELSE /\ db' = Apply(db, call[p].dbtx)
              /\ call' = [call EXCEPT ![p] =
                            [@ EXCEPT !.pc = "send_height",
                                      !.dbtx = EmptyTables]]
    /\ UNCHANGED <<chain_params_tx, height_tx, next_rate_data_tx,
                   valid_anchors_tx>>
    /\ UNCHANGED <<receivers, vvars>>

\* (mutant) the height sent is the one before the block's.
BlockSendHeight_OffByOne(p) ==
    /\ call[p].op = "commit_block" /\ call[p].pc = "send_height"
    /\ height_tx' = Sent("height", height_tx, call[p].arg.height - 1)
    /\ call' = [call EXCEPT ![p].pc = "send_valid_anchors"]
    /\ UNCHANGED <<db, chain_params_tx, next_rate_data_tx, valid_anchors_tx>>
    /\ UNCHANGED <<receivers, vvars>>

\* commit_block, line 352: height_tx.send(height)
BlockSendHeight(p) ==
    /\ call[p].op = "commit_block" /\ call[p].pc = "send_height"
    /\ height_tx' = Sent("height", height_tx, call[p].arg.height)
    /\ call' = [call EXCEPT ![p].pc = "send_valid_anchors"]
    /\ UNCHANGED <<db, chain_params_tx, next_rate_data_tx, valid_anchors_tx>>
    /\ UNCHANGED <<receivers, vvars>>

\* (mutant) the window computed anew from the channel when it is sent.
BlockSendValidAnchors_Reread(p) ==
    /\ call[p].op = "commit_block" /\ call[p].pc = "send_valid_anchors"
    /\ valid_anchors_tx' =
          Sent("valid_anchors", valid_anchors_tx,
               NextValidAnchors(valid_anchors_tx, call[p].nct_anchor))
    /\ call' = [call EXCEPT ![p].pc = "send_next_rate_data"]
    /\ UNCHANGED <<db, chain_params_tx, height_tx, next_rate_data_tx>>
    /\ UNCHANGED <<receivers, vvars>>

\* commit_block, line 353: valid_anchors_tx.send(valid_anchors)
BlockSendValidAnchors(p) ==
    /\ call[p].op = "commit_block" /\ call[p].pc = "send_valid_anchors"
    /\ valid_anchors_tx' = Sent("valid_anchors", valid_anchors_tx,
                                 call[p].valid_anchors)
    /\ call' = [call EXCEPT ![p].pc = "send_next_rate_data"]
    /\ UNCHANGED <<db, chain_params_tx, height_tx, next_rate_data_tx>>
    /\ UNCHANGED <<receivers, vvars>>

\* (mutant) the note commitment tree's root returned as the app hash.
BlockSendNextRateData_ReturnsAnchor(p) ==
    /\ call[p].op = "commit_block" /\ call[p].pc = "send_next_rate_data"
    /\ next_rate_data_tx' = IF call[p].next_rate_data # None
                            THEN Sent("next_rate_data", next_rate_data_tx,
                                      call[p].next_rate_data[1])
                            ELSE next_rate_data_tx
    /\ call' = [call EXCEPT ![p].pc = "done",
                            ![p].ret = Ok(call[p].nct_anchor)]
    /\ UNCHANGED <<db, chain_params_tx, height_tx, valid_anchors_tx>>
    /\ UNCHANGED <<receivers, vvars>>

\* (mutant) an empty map sent when the block has no next rates.
BlockSendNextRateData_SendsDefault(p) ==
    /\ call[p].op = "commit_block" /\ call[p].pc = "send_next_rate_data"
    /\ next_rate_data_tx' =
          Sent("next_rate_data", next_rate_data_tx,
               IF call[p].next_rate_data # None
               THEN call[p].next_rate_data[1] ELSE <<>>)
    /\ call' = [call EXCEPT ![p].pc = "done",
                            ![p].ret = Ok(call[p].app_hash)]
    /\ UNCHANGED <<db, chain_params_tx, height_tx, valid_anchors_tx>>
    /\ UNCHANGED <<receivers, vvars>>

\* commit_block, lines 354-359: the next rate data is sent if the block has
\* any; Ok(app_hash)
BlockSendNextRateData(p) ==
    /\ call[p].op = "commit_block" /\ call[p].pc = "send_next_rate_data"
    /\ next_rate_data_tx' = IF call[p].next_rate_data # None
                            THEN Sent("next_rate_data", next_rate_data_tx,
                                      call[p].next_rate_data[1])
                            ELSE next_rate_data_tx
    /\ call' = [call EXCEPT ![p].pc = "done",
                            ![p].ret = Ok(call[p].app_hash)]
    /\ UNCHANGED <<db, chain_params_tx, height_tx, valid_anchors_tx>>
    /\ UNCHANGED <<receivers, vvars>>

\* state::new() calls init_caches() when the process starts.
CallInitCaches(p) ==
    /\ call[p].op = "idle"
    /\ call' = [call EXCEPT ![p] =
                  [Idle EXCEPT !.op = "init_caches", !.pc = "read",
                               !.pre = [db |-> db, channels |-> Channels]]]
    /\ UNCHANGED <<db, chain_params_tx, height_tx, next_rate_data_tx,
                   valid_anchors_tx>>
    /\ UNCHANGED <<receivers, vvars>>

\* init_caches, lines 35-45: the four reads through the private reader; the
\* error of any of them is returned by `?`.
InitCachesRead(p) ==
    /\ call[p].op = "init_caches" /\ call[p].pc = "read"
    /\ \E fail \in BOOLEAN :
         call' = [call EXCEPT ![p] =
            IF fail THEN Abort([@ EXCEPT !.faulted = TRUE], "query")
            ELSE [@ EXCEPT !.pc = "send",
                    !.chain_params =
                        Some(genesis_configuration(db).chain_params),
                    !.height = Some(TopHeight(db)),
                    !.next_rate_data = Some(next_rate_data(db)),
                    !.valid_anchors =
                        recent_anchors(db, NUM_RECENT_ANCHORS)]]
    /\ UNCHANGED <<db, chain_params_tx, height_tx, next_rate_data_tx,
                   valid_anchors_tx>>
    /\ UNCHANGED <<receivers, vvars>>

\* (mutant) the results of the sends propagated by `?`.
InitCachesSend_Checked(p) ==
    /\ call[p].op = "init_caches" /\ call[p].pc = "send"
    /\ chain_params_tx' = Sent("chain_params", chain_params_tx,
                                call[p].chain_params[1])
    /\ height_tx' = Sent("height", height_tx, call[p].height[1])
    /\ next_rate_data_tx' = Sent("next_rate_data", next_rate_data_tx,
                                  call[p].next_rate_data[1])
    /\ valid_anchors_tx' = Sent("valid_anchors", valid_anchors_tx,
                                 call[p].valid_anchors)
    /\ call' = [call EXCEPT ![p].pc = "done",
                            ![p].ret = IF receivers = AllChannels
                                       THEN Ok("unit") ELSE Err("send")]
    /\ UNCHANGED db
    /\ UNCHANGED <<receivers, vvars>>

\* init_caches, lines 47-53: the four sends, their results dropped; Ok(()).
\* (Nothing else runs while the process starts: the sends are one step.)
InitCachesSend(p) ==
    /\ call[p].op = "init_caches" /\ call[p].pc = "send"
    /\ chain_params_tx' = Sent("chain_params", chain_params_tx,
                                call[p].chain_params[1])
    /\ height_tx' = Sent("height", height_tx, call[p].height[1])
    /\ next_rate_data_tx' = Sent("next_rate_data", next_rate_data_tx,
                                  call[p].next_rate_data[1])
    /\ valid_anchors_tx' = Sent("valid_anchors", valid_anchors_tx,
                                 call[p].valid_anchors)
    /\ call' = [call EXCEPT ![p].pc = "done", ![p].ret = Ok("unit")]
    /\ UNCHANGED db
    /\ UNCHANGED <<receivers, vvars>>

\* The call has returned; the driver may call again.
Return(p) ==
    /\ call[p].pc = "done"
    /\ call' = [call EXCEPT ![p] = Idle]
    /\ UNCHANGED <<db, chain_params_tx, height_tx, next_rate_data_tx,
                   valid_anchors_tx>>
    /\ UNCHANGED <<receivers, vvars>>

\* -------------------------------------------------------- verify_stateless
\* The actions a transaction may hold.  The cryptographic checks are opaque
\* capabilities: whether a signature or a proof verifies is a property of
\* the action.
OutputActions ==
    [kind : {"Output"}, note_commitment : {1, 2}, proof_verifies : BOOLEAN]
SpendActions ==
    [kind : {"Spend"}, nullifier : Nullifiers, auth_sig_verifies : BOOLEAN,
     proof_verifies : BOOLEAN]
OtherActions ==
    { [kind |-> "Delegate"], [kind |-> "Undelegate"],
      [kind |-> "ValidatorDefinition"] }
Actions == OutputActions \cup SpendActions \cup OtherActions

RECURSIVE SeqsUpTo(_, _)
SeqsUpTo(S, n) ==
    IF n = 0 THEN {<<>>}
    ELSE LET shorter == SeqsUpTo(S, n - 1)
         IN  shorter \cup { Append(q, x) : q \in shorter, x \in S }

Transactions ==
    { [body |-> [actions |-> acts, merkle_root |-> root2(tree)],
       binding_sig_verifies |-> b] :
        acts \in SeqsUpTo(Actions, MaxActions), tree \in {{}, {1}},
        b \in BOOLEAN }

\* self.id(): a digest of the transaction.
id(tx) == <<"txid", tx.body>>

\* The NoteData recorded for an output.
NoteDataOf(output, tx) ==
    [ephemeral_key |-> <<"epk", output.note_commitment>>,
     encrypted_note |-> <<"enc", output.note_commitment>>,
     transaction_id |-> id(tx)]

\* The function m with key k set to v (BTreeMap::insert).
MapInsert(m, k, v) ==
    [x \in DOMAIN m \cup {k} |-> IF x = k THEN v ELSE m[x]]

VerifyError(e) ==
    /\ vpc' = "done"
    /\ vret' = [ok |-> FALSE, err |-> e]
    /\ UNCHANGED <<transaction, next_action, spent_nullifiers, new_notes,
                   delegations, undelegations>>

\* (mutant) the result of the binding signature check dropped.
VerifyBinding_Ignored ==
    /\ vpc = "binding"
    /\ vpc' = "actions"
    /\ UNCHANGED <<transaction, next_action, spent_nullifiers,
                   new_notes, delegations, undelegations, vret>>
    /\ UNCHANGED wvars

\* Lines 23-39: the binding signature, then the empty accumulators.
VerifyBinding ==
    /\ vpc = "binding"
    /\ IF transaction.binding_sig_verifies
       THEN /\ vpc' = "actions"
            /\ UNCHANGED <<transaction, next_action, spent_nullifiers,
                           new_notes, delegations, undelegations, vret>>
       ELSE VerifyError("binding signature failed to verify")
    /\ UNCHANGED wvars

AtAction(kinds) ==
    /\ vpc = "actions"
    /\ next_action <= Len(transaction.body.actions)
    /\ transaction.body.actions[next_action].kind \in kinds

\* (mutant) a verified output not recorded in new_notes.
VerifyOutput_NoRecord ==
    /\ vpc = "actions"
    /\ next_action <= Len(transaction.body.actions)
    /\ transaction.body.actions[next_action].kind = "Output"
    /\ IF ~transaction.body.actions[next_action].proof_verifies
       THEN VerifyError("An output proof did not verify")
       ELSE /\ next_action' = next_action + 1
            /\ UNCHANGED <<transaction, vpc, spent_nullifiers, new_notes,
                           delegations, undelegations, vret>>
    /\ UNCHANGED wvars

\* Lines 43-66: Action::Output
VerifyOutput ==
    /\ AtAction({"Output"})
    /\ LET output == transaction.body.actions[next_action]
       IN  IF ~output.proof_verifies
           THEN VerifyError("An output proof did not verify")
           ELSE /\ new_notes' = MapInsert(new_notes, output.note_commitment,
                                          NoteDataOf(output, transaction))
                /\ next_action' = next_action + 1
                /\ UNCHANGED <<transaction, vpc, spent_nullifiers,
                               delegations, undelegations, vret>>
    /\ UNCHANGED wvars

\* (mutant) no check that the nullifier was already revealed: the set
\* deduplicates it.
VerifySpend_Dedup ==
    /\ vpc = "actions"
    /\ next_action <= Len(transaction.body.actions)
    /\ transaction.body.actions[next_action].kind = "Spend"
    /\ LET spend == transaction.body.actions[next_action]
       IN  IF ~spend.auth_sig_verifies
           THEN VerifyError("spend auth signature failed to verify")
           ELSE IF ~spend.proof_verifies
           THEN VerifyError("A spend proof did not verify")
           ELSE /\ spent_nullifiers' = spent_nullifiers \cup {spend.nullifier}
                /\ next_action' = next_action + 1
                /\ UNCHANGED <<transaction, vpc, new_notes, delegations,
                               undelegations, vret>>
    /\ UNCHANGED wvars

\* (mutant) the spend proof checked before the spend auth signature.
VerifySpend_ProofFirst ==
    /\ vpc = "actions"
    /\ next_action <= Len(transaction.body.actions)
    /\ transaction.body.actions[next_action].kind = "Spend"
    /\ LET spend == transaction.body.actions[next_action]
       IN  IF ~spend.proof_verifies
           THEN VerifyError("A spend proof did not verify")
           ELSE IF ~spend.auth_sig_verifies
           THEN VerifyError("spend auth signature failed to verify")
           ELSE IF spend.nullifier \in spent_nullifiers
           THEN VerifyError("Double spend")
           ELSE /\ spent_nullifiers' = spent_nullifiers \cup {spend.nullifier}
                /\ next_action' = next_action + 1
                /\ UNCHANGED <<transaction, vpc, new_notes, delegations,
                               undelegations, vret>>
    /\ UNCHANGED wvars

\* Lines 67-95: Action::Spend
VerifySpend ==
    /\ AtAction({"Spend"})
    /\ LET spend == transaction.body.actions[next_action]
       IN  IF ~spend.auth_sig_verifies
           THEN VerifyError("spend auth signature failed to verify")
           ELSE IF ~spend.proof_verifies
           THEN VerifyError("A spend proof did not verify")
           ELSE IF spend.nullifier \in spent_nullifiers
           THEN VerifyError("Double spend")
           ELSE /\ spent_nullifiers' = spent_nullifiers \cup {spend.nullifier}
                /\ next_action' = next_action + 1
                /\ UNCHANGED <<transaction, vpc, new_notes, delegations,
                               undelegations, vret>>
    /\ UNCHANGED wvars

\* Lines 96-100: Action::Delegate
VerifyDelegate ==
    /\ AtAction({"Delegate"})
    /\ delegations' = Append(delegations, transaction.body.actions[next_action])
    /\ next_action' = next_action + 1
    /\ UNCHANGED <<transaction, vpc, spent_nullifiers, new_notes,
                   undelegations, vret>>
    /\ UNCHANGED wvars

\* Lines 101-105: Action::Undelegate
VerifyUndelegate ==
    /\ AtAction({"Undelegate"})
    /\ undelegations' =
          Append(undelegations, transaction.body.actions[next_action])
    /\ next_action' = next_action + 1
    /\ UNCHANGED <<transaction, vpc, spent_nullifiers, new_notes,
                   delegations, vret>>
    /\ UNCHANGED wvars

\* Lines 106-108: any other action
VerifyUnsupported ==
    /\ vpc = "actions"
    /\ next_action <= Len(transaction.body.actions)
    /\ transaction.body.actions[next_action].kind
          \notin {"Output", "Spend", "Delegate", "Undelegate"}
    /\ VerifyError("unsupported action")
    /\ UNCHANGED wvars

\* Lines 112-120: Ok(PendingTransaction { .. })
VerifyReturn ==
    /\ vpc = "actions"
    /\ next_action > Len(transaction.body.actions)
    /\ vpc' = "done"
    /\ vret' = [ok |-> TRUE,
                value |-> [id |-> id(transaction),
                           root |-> transaction.body.merkle_root,
                           new_notes |-> new_notes,
                           spent_nullifiers |-> spent_nullifiers,
                           delegations |-> delegations,
                           undelegations |-> undelegations,
                           validators |-> <<>>]]
    /\ UNCHANGED <<transaction, next_action, spent_nullifiers, new_notes,
                   delegations, undelegations>>
    /\ UNCHANGED wvars

\* ----------------------------------------------------------- specification
\* The state after state::new() on an empty database.
WriterInit ==
    /\ db = EmptyTables
    /\ chain_params_tx = DefaultChainParams
    /\ height_tx = 0
    /\ next_rate_data_tx = <<>>
    /\ valid_anchors_tx = <<>>
    /\ receivers = AllChannels
    /\ call = [p \in Procs |-> Idle]

\* verify_stateless is entered with the accumulators it starts from.
VerifierLocals ==
    /\ next_action = 1
    /\ spent_nullifiers = {}
    /\ new_notes = <<>>
    /\ delegations = <<>>
    /\ undelegations = <<>>
    /\ vret = None

Init ==
    /\ WriterInit
    /\ transaction = None
    /\ vpc = "idle"
    /\ VerifierLocals

\* The single-writer discipline: one driver, one call at a time.
Next ==
    \/ CallCommitGenesis(Driver)
    \/ GenesisTx(Driver)
    \/ GenesisCommit(Driver)
    \/ GenesisSendChainParams(Driver)
    \/ GenesisSendNextRateData(Driver)
    \/ CallCommitBlock(Driver)
    \/ BlockTx(Driver)
    \/ BlockWindow(Driver)
    \/ BlockCommit(Driver)
    \/ BlockSendHeight(Driver)
    \/ BlockSendValidAnchors(Driver)
    \/ BlockSendNextRateData(Driver)
    \/ Return(Driver)

vars == <<wvars, vvars>>

Spec == Init /\ [][Next]_vars

\* The Writer of a process that starts on the database as it is, with
\* init_caches run again at each start; the channels may have lost every
\* receiver.
ReceiverSets == { {}, {"chain_params", "next_rate_data"} }

PublishInit ==
    /\ db = EmptyTables
    /\ chain_params_tx = DefaultChainParams
    /\ height_tx = 0
    /\ next_rate_data_tx = <<>>
    /\ valid_anchors_tx = <<>>
    /\ receivers \in ReceiverSets
    /\ call = [p \in Procs |-> Idle]
    /\ transaction = None
    /\ vpc = "idle"
    /\ VerifierLocals

PublishNext ==
    \/ CallInitCaches(Driver)
    \/ InitCachesRead(Driver)
    \/ InitCachesSend(Driver)
    \/ Next

PublishSpec == PublishInit /\ [][PublishNext]_vars

\* The single driver, every channel with a receiver, and the process
\* starting again (init_caches) between calls.
RestartSpec == Init /\ [][PublishNext]_vars

\* Two callers: the driver, and a second one that does not wait for the
\* driver's commit_block to return before it submits the next block.
Second == "d2"

\* The blocks of the race: with or without a note (the two roots differ or
\* not); nullifiers and rates play no part in it.
RaceBlock(block) ==
    /\ block.spent_nullifiers = {}
    /\ block.next_base_rate = None
    /\ block.next_rates = None

\* The race starts from the state a successful commit_genesis leaves.
RaceGenesis ==
    [chain_params |-> "cp1", validators |-> GenesisValidators({"V1"})]

RaceInit ==
    /\ db = Apply(EmptyTables,
                  commit_genesis_tx(EmptyTables, RaceGenesis, NoFault).tx)
    /\ chain_params_tx = RaceGenesis.chain_params
    /\ height_tx = 0
    /\ next_rate_data_tx = GenesisNextRateData(RaceGenesis.validators)
    /\ valid_anchors_tx = <<>>
    /\ receivers = AllChannels
    /\ call = [p \in Procs |-> Idle]
    /\ transaction = None
    /\ vpc = "idle"
    /\ VerifierLocals

RaceNext ==
    \/ /\ call[Second].op = "idle"
       /\ TopHeight(db) < MaxRaceHeight
       /\ CallCommitBlock(Driver)
       /\ RaceBlock(call'[Driver].arg)
    \/ /\ CallCommitBlockAhead(Second)
       /\ call'[Second].arg.height <= MaxRaceHeight
       /\ RaceBlock(call'[Second].arg)
    \/ \E p \in Procs : BlockTx(p)
    \/ \E p \in Procs : BlockWindow(p)
    \/ \E p \in Procs : BlockCommit(p)
    \/ \E p \in Procs : BlockSendHeight(p)
    \/ \E p \in Procs : BlockSendValidAnchors(p)
    \/ \E p \in Procs : BlockSendNextRateData(p)
    \/ \E p \in Procs : Return(p)

RaceSpec == RaceInit /\ [][RaceNext]_vars

\* verify_stateless applied to every transaction of the bounded set.
VerifyInit ==
    /\ WriterInit
    /\ transaction \in Transactions
    /\ vpc = "binding"
    /\ VerifierLocals

VerifyNext ==
    \/ VerifyBinding
    \/ VerifyOutput
    \/ VerifySpend
    \/ VerifyDelegate
    \/ VerifyUndelegate
    \/ VerifyUnsupported
    \/ VerifyReturn

VerifySpec == VerifyInit /\ [][VerifyNext]_vars

\* commit_block at its update of the anchors window (lines 337-341), for
\* every window of up to NUM_RECENT_ANCHORS roots and every new root.
WindowRoots == { root2(tree) : tree \in SUBSET {1, 2} }

WindowInit ==
    /\ db = EmptyTables
    /\ chain_params_tx = DefaultChainParams
    /\ height_tx = 0
    /\ next_rate_data_tx = <<>>
    /\ valid_anchors_tx \in SeqsUpTo(WindowRoots, NUM_RECENT_ANCHORS)
    /\ receivers = AllChannels
    /\ \E nct_anchor \in WindowRoots :
         \E block \in PendingBlocks(1, nct_anchor[2]) :
            /\ block.notes = {} /\ block.spent_nullifiers = {}
            /\ call = [p \in Procs |->
                         IF p = Driver
                         THEN [Idle EXCEPT !.op = "commit_block",
                                           !.pc = "window", !.arg = block,
                                           !.nct_anchor = nct_anchor]
                         ELSE Idle]
    /\ transaction = None
    /\ vpc = "idle"
    /\ VerifierLocals

WindowNext == BlockWindow(Driver)

WindowSpec == WindowInit /\ [][WindowNext]_vars

\* ------------------------------------------------------------------ claims
\* The call of caller p to `op` has returned (its result is call[p].ret).
Returned(p, op) == call[p].op = op /\ call[p].pc = "done"

\* The persisted state and every channel are what they were when the call
\* of caller p was made.
NothingChanged(p) ==
    /\ db = call[p].pre.db
    /\ Channels = call[p].pre.channels

\* C1: a commit_block to which the database reported an error (at any query
\* or at the commit) returns an error, and leaves the persisted state and all
\* four channels as they were before the call.
C1_CommitBlockAtomic ==
    \A p \in Procs :
        Returned(p, "commit_block") =>
            /\ call[p].faulted => ~call[p].ret.ok
            /\ ~call[p].ret.ok => NothingChanged(p)

\* A commit_block that failed at its final commit, after every kind of write
\* was pending in its transaction.
C1_Witness ==
    /\ Returned(Driver, "commit_block")
    /\ call[Driver].faulted
    /\ call[Driver].ret = Err("commit")
    /\ call[Driver].arg.notes # {}
    /\ call[Driver].arg.spent_nullifiers # {}
    /\ call[Driver].arg.next_base_rate # None
    /\ call[Driver].arg.next_rates # None
    /\ db.blocks # {}

\* C2: whatever the height channel and the anchors window show has a
\* committed blocks row: the height (unless still the initial 0) is the
\* height of a row, and every anchor of the window is the nct_anchor of a row.
C2_PublishedIsCommitted ==
    /\ height_tx # 0 => \E b \in db.blocks : b.height = height_tx
    /\ \A i \in 1..Len(valid_anchors_tx) :
          \E b \in db.blocks : b.nct_anchor = valid_anchors_tx[i]

\* Between the two sends of a commit_block: the new height is out, the new
\* window is not yet.
C2_Witness ==
    /\ call[Driver].op = "commit_block"
    /\ call[Driver].pc = "send_valid_anchors"
    /\ height_tx = 2
    /\ Len(valid_anchors_tx) = 1

\* C3: a nullifier has at most one row in the nullifiers table; rows are
\* never removed or changed by a call; a successful commit_block adds exactly
\* the rows of its spent nullifiers, at its height; and a commit_block that
\* spends a nullifier already recorded fails and changes nothing.
C3_NullifierSpentOnce ==
    /\ \A r1, r2 \in db.nullifiers :
          r1.nullifier = r2.nullifier => r1 = r2
    /\ \A p \in Procs :
          /\ call[p].op # "idle" => call[p].pre.db.nullifiers \subseteq db.nullifiers
          /\ Returned(p, "commit_block") =>
               /\ call[p].ret.ok =>
                    db.nullifiers = call[p].pre.db.nullifiers \cup
                        { [nullifier |-> nf, height |-> call[p].arg.height] :
                            nf \in call[p].arg.spent_nullifiers }
               /\ (\E nf \in call[p].arg.spent_nullifiers :
                      NullifierRecorded(call[p].pre.db, EmptyTables, nf)) =>
                    ~call[p].ret.ok /\ NothingChanged(p)

\* A block that spends a fresh nullifier and then one recorded by an earlier
\* block has been rejected.
C3_Witness ==
    /\ Returned(Driver, "commit_block")
    /\ call[Driver].ret = Err("query")
    /\ call[Driver].arg.spent_nullifiers = {1, 2}
    /\ ~NullifierRecorded(db, EmptyTables, 1)
    /\ \E r \in db.nullifiers :
          r.nullifier = 2 /\ r.height < call[Driver].arg.height

\* C4: the published window never holds more than NUM_RECENT_ANCHORS entries,
\* and when a commit_block has returned successfully its front entry is the
\* root of that block's tree, which is the anchor of the highest blocks row.
C4_WindowBoundedAndFresh ==
    /\ Len(valid_anchors_tx) <= NUM_RECENT_ANCHORS
    /\ \A p \in Procs :
          Returned(p, "commit_block") /\ call[p].ret.ok =>
             /\ Len(valid_anchors_tx) >= 1
             /\ valid_anchors_tx[1] = root2(call[p].arg.note_commitment_tree)
             /\ \E b \in db.blocks :
                   /\ b.height = TopHeight(db)
                   /\ b.height = call[p].arg.height
                   /\ b.nct_anchor = valid_anchors_tx[1]

\* A block committed onto a full window: the window stays full, the oldest
\* root is gone.
C4_Witness ==
    /\ Returned(Driver, "commit_block")
    /\ call[Driver].ret.ok
    /\ Len(call[Driver].pre.channels.valid_anchors) = NUM_RECENT_ANCHORS
    /\ Len(valid_anchors_tx) = NUM_RECENT_ANCHORS
    /\ valid_anchors_tx[1] # call[Driver].pre.channels.valid_anchors[1]

\* C5: a commit_genesis on a store that already holds a genesis config
\* returns an error and leaves the persisted state and the channels as they
\* were.
C5_GenesisOnce ==
    \A p \in Procs :
        Returned(p, "commit_genesis") /\ call[p].pre.db.gc # None =>
            /\ ~call[p].ret.ok
            /\ NothingChanged(p)

\* A second commit_genesis, with another config than the stored one, has
\* returned.
C5_Witness ==
    /\ Returned(Driver, "commit_genesis")
    /\ call[Driver].pre.db.gc # None
    /\ call[Driver].pre.db.gc # Some(to_vec(call[Driver].arg))
    /\ call[Driver].pre.db.validators # {}

C10_HeightFollowsCommits ==
    /\ \A p \in Procs :
          Returned(p, "commit_block") =>
             IF call[p].ret.ok
             THEN /\ height_tx = call[p].arg.height
                  /\ height_tx > call[p].pre.channels.height
                  /\ height_tx = TopHeight(db)
             ELSE height_tx = call[p].pre.channels.height
    /\ (\A p \in Procs : call[p].op = "idle") => height_tx = TopHeight(db)

\* The second block committed after a failed attempt at it.
C10_Witness ==
    /\ Returned(Driver, "commit_block")
    /\ call[Driver].ret.ok
    /\ height_tx = 2
    /\ call[Driver].pre.channels.height = 1

\* The positions of the transaction's actions of a kind.
ActionsOfKind(tx, kind) ==
    { i \in 1..Len(tx.body.actions) : tx.body.actions[i].kind = kind }

\* The positions of the Spend actions whose nullifier an earlier Spend action
\* of the transaction has.
RepeatedSpends(tx) ==
    { j \in ActionsOfKind(tx, "Spend") :
        \E i \in ActionsOfKind(tx, "Spend") :
            i < j /\ tx.body.actions[i].nullifier = tx.body.actions[j].nullifier }

\* The signatures and proofs of an action verify, and its kind is supported.
ActionVerifies(a) ==
    CASE a.kind = "Output" -> a.proof_verifies
      [] a.kind = "Spend" -> a.auth_sig_verifies /\ a.proof_verifies
      [] a.kind \in {"Delegate", "Undelegate"} -> TRUE
      [] OTHER -> FALSE

\* C6, as stated: every transaction with two Spend actions of the same
\* nullifier is rejected with the double spend error.
C6_AsStated ==
    vpc = "done" /\ RepeatedSpends(transaction) # {} =>
        vret = [ok |-> FALSE, err |-> "Double spend"]

\* C6, amended: every transaction with two Spend actions of the same
\* nullifier is rejected; the error is the double spend error exactly when the
\* binding signature verifies and every action up to and including the first
\* repeating Spend passes its own checks (otherwise an earlier check failed,
\* and its error is returned).
C6_RepeatedSpendRejected ==
    vpc = "done" /\ RepeatedSpends(transaction) # {} =>
        LET first == CHOOSE j \in RepeatedSpends(transaction) :
                        \A k \in RepeatedSpends(transaction) : j <= k
        IN  /\ ~vret.ok
            /\ vret.err = "Double spend" <=>
                 /\ transaction.binding_sig_verifies
                 /\ \A i \in 1..first :
                       ActionVerifies(transaction.body.actions[i])

\* A transaction whose first and third actions spend the same nullifier, with
\* an output between them, has been rejected as a double spend.
C6_Witness ==
    /\ vpc = "done"
    /\ vret = [ok |-> FALSE, err |-> "Double spend"]
    /\ Len(transaction.body.actions) = 3
    /\ transaction.body.actions[2].kind = "Output"
    /\ next_action = 3
    /\ spent_nullifiers = {transaction.body.actions[1].nullifier}

\* C7: a transaction whose binding signature does not verify is rejected with
\* the binding signature error, whatever its actions, before any action is
\* looked at; no PendingTransaction is returned.
C7_BindingSignatureFirst ==
    vpc = "done" /\ ~transaction.binding_sig_verifies =>
        /\ vret = [ok |-> FALSE, err |-> "binding signature failed to verify"]
        /\ next_action = 1
        /\ spent_nullifiers = {}
        /\ new_notes = <<>>

\* A transaction with a bad binding signature whose first action would fail
\* a check of its own has been rejected.
C7_Witness ==
    /\ vpc = "done"
    /\ ~transaction.binding_sig_verifies
    /\ Len(transaction.body.actions) = 3
    /\ ~ActionVerifies(transaction.body.actions[1])
    /\ ~vret.ok

\* C8: the PendingTransaction of an accepted transaction has the note
\* commitments of the Output actions as the keys of new_notes, the nullifiers
\* of the Spend actions as spent_nullifiers (one per Spend action), the
\* transaction's id in itself and in every NoteData, and the declared root.
C8_PendingTransactionExact ==
    vpc = "done" /\ vret.ok =>
        LET pt == vret.value
            acts == transaction.body.actions
        IN  /\ DOMAIN pt.new_notes =
                 { acts[i].note_commitment :
                     i \in ActionsOfKind(transaction, "Output") }
            /\ pt.spent_nullifiers =
                 { acts[i].nullifier : i \in ActionsOfKind(transaction, "Spend") }
            /\ Cardinality(pt.spent_nullifiers) =
                 Cardinality(ActionsOfKind(transaction, "Spend"))
            /\ \A nc \in DOMAIN pt.new_notes :
                  pt.new_notes[nc].transaction_id = id(transaction)
            /\ pt.id = id(transaction)
            /\ pt.root = transaction.body.merkle_root

\* A transaction of one output and two spends has been accepted.
C8_Witness ==
    /\ vpc = "done"
    /\ vret.ok
    /\ Cardinality(ActionsOfKind(transaction, "Output")) = 1
    /\ Cardinality(ActionsOfKind(transaction, "Spend")) = 2
    /\ transaction.body.merkle_root = root2({1})

\* The elements of a sequence.
Range(q) == { q[i] : i \in 1..Len(q) }

\* Both callers' commit_block calls have returned successfully.
RaceReturnedOk ==
    \A p \in Procs : Returned(p, "commit_block") /\ call[p].ret.ok

\* C11: nothing in the Writer keeps two commit_block calls apart.  When two
\* calls in flight at once have both returned successfully, both blocks are
\* committed (each has its blocks row), and each of the height channel and
\* the anchors window holds what one of the two calls sent: the height of
\* that call's block, and the window that call computed before its commit
\* from what it read then, whatever the other call committed or published
\* meanwhile.  (The witness is the race the claim names.)
C11_RaceLosesUpdates ==
    RaceReturnedOk =>
        /\ \A p \in Procs :
              \E b \in db.blocks :
                 /\ b.height = call[p].arg.height
                 /\ b.nct_anchor = call[p].nct_anchor
                 /\ b.app_hash = call[p].ret.value
        /\ \E p \in Procs : height_tx = call[p].arg.height
        /\ \E p \in Procs : valid_anchors_tx = call[p].valid_anchors

\* Both calls have returned successfully; the published height is below the
\* highest committed height, and the window lacks the root of one of the
\* NUM_RECENT_ANCHORS most recent blocks.
C11_Witness ==
    /\ RaceReturnedOk
    /\ height_tx < TopHeight(db)
    /\ \E b \in Range(HighestFirst(db.blocks, NUM_RECENT_ANCHORS)) :
          b.nct_anchor \notin Range(valid_anchors_tx)

\* C12: after a successful commit_genesis, base_rates holds exactly one row
\* for each of the epochs 0 and 1, with reward 0 and exchange 100000000; for
\* every genesis validator the validators table holds its row with its
\* genesis voting power and state Active, and validator_rates holds exactly
\* one row for each of (V, 0) and (V, 1), with reward 0 and exchange
\* 100000000; and the next-rate-data channel holds exactly one entry per
\* genesis validator, with epoch index 1, reward 0 and exchange 100000000.
C12_GenesisPostState ==
    \A p \in Procs :
        Returned(p, "commit_genesis") /\ call[p].ret.ok =>
            LET keys == { vp.validator.identity_key :
                            vp \in call[p].arg.validators }
            IN  /\ \A e \in {0, 1} :
                      { r \in db.base_rates : r.epoch = e } =
                          {[epoch |-> e, base_reward_rate |-> 0,
                            base_exchange_rate |-> 100000000]}
                /\ \A vp \in call[p].arg.validators :
                      /\ \E v \in db.validators :
                            /\ v.identity_key = vp.validator.identity_key
                            /\ v.voting_power = vp.power
                            /\ v.validator_state = "Active"
                      /\ \A e \in {0, 1} :
                            { r \in db.validator_rates :
                                /\ r.identity_key = vp.validator.identity_key
                                /\ r.epoch = e } =
                            {[identity_key |-> vp.validator.identity_key,
                              epoch |-> e, validator_reward_rate |-> 0,
                              validator_exchange_rate |-> 100000000]}
                /\ DOMAIN next_rate_data_tx = keys
                /\ \A ik \in keys :
                      next_rate_data_tx[ik] =
                          [identity_key |-> ik, epoch_index |-> 1,
                           validator_reward_rate |-> 0,
                           validator_exchange_rate |-> 100000000]

\* A genesis with two validators has been committed.
C12_Witness ==
    /\ Returned(Driver, "commit_genesis")
    /\ call[Driver].ret.ok
    /\ Cardinality(call[Driver].arg.validators) = 2
    /\ Cardinality(db.validator_rates) = 4

\* C13: a call fails only when the database reported an error to it, never
\* because a channel has no receiver: a commit_block, commit_genesis or
\* init_caches to which the database reported no error returns success
\* (commit_block: the app hash), the persisted state is what its transaction
\* wrote on top of the state before the call, and a channel without a
\* receiver keeps its value.
C13_PublishFireAndForget ==
    \A p \in Procs :
        call[p].pc = "done" =>
            /\ call[p].ret.ok <=> ~call[p].faulted
            /\ \A ch \in AllChannels \ receivers :
                  Channels[ch] = call[p].pre.channels[ch]
            /\ call[p].ret.ok =>
                 CASE call[p].op = "commit_block" ->
                        /\ call[p].ret.value =
                             put_value_set(
                                 call[p].pre.db.jmt, NoteCommitmentAnchorKey,
                                 root2(call[p].arg.note_commitment_tree),
                                 call[p].arg.height).root_hash
                        /\ db = Apply(call[p].pre.db,
                                      commit_block_tx(call[p].pre.db,
                                                      call[p].arg,
                                                      NoFault).st.tx)
                   [] call[p].op = "commit_genesis" ->
                        db = Apply(call[p].pre.db,
                                   commit_genesis_tx(call[p].pre.db,
                                                     call[p].arg, NoFault).tx)
                   [] OTHER -> db = call[p].pre.db

\* No channel has a receiver: a genesis and two blocks are committed, the
\* second commit_block has returned its app hash, and every channel still
\* holds its initial value.
C13_Witness ==
    /\ receivers = {}
    /\ Returned(Driver, "commit_block")
    /\ call[Driver].ret.ok
    /\ call[Driver].arg.next_rates # None
    /\ db.gc # None
    /\ TopHeight(db) = 2
    /\ Channels = [chain_params |-> DefaultChainParams, height |-> 0,
                   next_rate_data |-> <<>>, valid_anchors |-> <<>>]

\* C14: at every point of a commit_block the chain-params channel holds what
\* it held before the call, and so does the next-rate-data channel when the
\* block carries no next rates; at every point of a commit_genesis the height
\* channel and the anchors window hold what they held before the call.
C14_PublicationFrame ==
    \A p \in Procs :
        /\ call[p].op = "commit_block" =>
              /\ chain_params_tx = call[p].pre.channels.chain_params
              /\ call[p].arg.next_rates = None =>
                    next_rate_data_tx = call[p].pre.channels.next_rate_data
        /\ call[p].op = "commit_genesis" =>
              /\ height_tx = call[p].pre.channels.height
              /\ valid_anchors_tx = call[p].pre.channels.valid_anchors

\* A block without next rates has been committed on a chain whose genesis
\* published chain parameters and rate data: its height and root are out.
C14_Witness ==
    /\ Returned(Driver, "commit_block")
    /\ call[Driver].ret.ok
    /\ call[Driver].arg.next_rates = None
    /\ chain_params_tx # DefaultChainParams
    /\ next_rate_data_tx # <<>>
    /\ height_tx # call[Driver].pre.channels.height
    /\ valid_anchors_tx # call[Driver].pre.channels.valid_anchors

\* C15: a commit_genesis to which the database reported an error (at any
\* insert, or at the final commit) returns an error and leaves the persisted
\* state (blobs, rates, validators) and every channel as they were before the
\* call; and if the store held no genesis config before, it holds none now,
\* so that the inserts and the commit of a later commit_genesis, with any
\* genesis config, go through and persist that config.
C15_GenesisAtomic ==
    \A p \in Procs :
        Returned(p, "commit_genesis") /\ call[p].faulted =>
            /\ ~call[p].ret.ok
            /\ NothingChanged(p)
            /\ call[p].pre.db.gc = None =>
                  \A genesis_config \in GenesisConfigs :
                      LET st == commit_genesis_tx(db, genesis_config, NoFault)
                      IN  /\ st.ok
                          /\ ~CommitConflict(db, st.tx)
                          /\ Apply(db, st.tx).gc =
                                 Some(to_vec(genesis_config))

\* The first commit_genesis, with two validators, has failed at its final
\* commit, after all its inserts.
C15_Witness ==
    /\ Returned(Driver, "commit_genesis")
    /\ call[Driver].ret = Err("commit")
    /\ call[Driver].pre.db.gc = None
    /\ Cardinality(call[Driver].arg.validators) = 2

\* The checks of the transaction's action at position i, in the order the
\* claim gives them, each with whether it passes and the error it raises.
ChecksOfAction(tx, i) ==
    LET a == tx.body.actions[i]
    IN  CASE a.kind = "Spend" ->
               << <<a.auth_sig_verifies,
                    "spend auth signature failed to verify">>,
                  <<a.proof_verifies, "A spend proof did not verify">>,
                  <<i \notin RepeatedSpends(tx), "Double spend">> >>
          [] a.kind = "Output" ->
               << <<a.proof_verifies, "An output proof did not verify">> >>
          [] a.kind \in {"Delegate", "Undelegate"} -> <<>>
          [] OTHER -> << <<FALSE, "unsupported action">> >>

\* The checks of actions i.. of the transaction, in declaration order.
RECURSIVE ChecksFrom(_, _)
ChecksFrom(tx, i) ==
    IF i > Len(tx.body.actions) THEN <<>>
    ELSE ChecksOfAction(tx, i) \o ChecksFrom(tx, i + 1)

\* All checks: the binding signature, then those of the actions.
ChecksInOrder(tx) ==
    << <<tx.binding_sig_verifies, "binding signature failed to verify">> >>
        \o ChecksFrom(tx, 1)

\* C16: verify_stateless returns the error of the first check that fails,
\* the checks taken in this order: the binding signature, then for each
\* action in declaration order its own checks (Spend: auth signature, spend
\* proof, nullifier repeated; Output: output proof; a kind other than Output,
\* Spend, Delegate, Undelegate: unsupported).  A failure of a later check
\* never replaces it, a failed transaction yields an error and no
\* PendingTransaction, and a transaction passing every check is accepted.
C16_FirstFailingCheck ==
    vpc = "done" =>
        LET checks == ChecksInOrder(transaction)
            failing == { k \in 1..Len(checks) : ~checks[k][1] }
        IN  IF failing = {} THEN vret.ok
            ELSE LET first == CHOOSE k \in failing :
                                 \A j \in failing : k <= j
                 IN  vret = [ok |-> FALSE, err |-> checks[first][2]]

\* A transaction was rejected for the spend proof of its second action,
\* which also repeats the nullifier of the first; its third action is of an
\* unsupported kind.
C16_Witness ==
    /\ vpc = "done"
    /\ Len(transaction.body.actions) = 3
    /\ 2 \in RepeatedSpends(transaction)
    /\ transaction.body.actions[2].auth_sig_verifies
    /\ ~transaction.body.actions[2].proof_verifies
    /\ transaction.body.actions[3].kind = "ValidatorDefinition"
    /\ vret = [ok |-> FALSE, err |-> "A spend proof did not verify"]

\* The update of the window as specified, for a window bound of num:
\* prepend the new root, then drop the tail if the window holds more than num
\* entries.
SpecifiedUpdate(valid_anchors, nct_anchor, num) ==
    LET grown == <<nct_anchor>> \o valid_anchors
    IN  IF Len(grown) > num THEN SubSeq(grown, 1, Len(grown) - 1) ELSE grown

\* C17: the window commit_block computes is the one the specified update
\* gives; and for every window bound num from 1 to NUM_RECENT_ANCHORS and
\* every window of length 0..num (the prefixes of the published one), the
\* code's update (drop the tail if the length is num or more, then prepend)
\* and the specified one (prepend, then drop the tail if the length is more
\* than num) give the same window; a full window stays at num entries: the
\* new root, then the old entries but the oldest, in their order.
C17_EvictionOrderEquivalent ==
    call[Driver].op = "commit_block" /\ call[Driver].pc = "commit" =>
        /\ call[Driver].valid_anchors =
              SpecifiedUpdate(valid_anchors_tx, call[Driver].nct_anchor,
                              NUM_RECENT_ANCHORS)
        /\ \A num \in 1..NUM_RECENT_ANCHORS :
              \A len \in 0..num :
                 len <= Len(valid_anchors_tx) =>
                    LET window == SubSeq(valid_anchors_tx, 1, len)
                        next == PushAnchor(window, call[Driver].nct_anchor,
                                           num)
                    IN  /\ next = SpecifiedUpdate(
                                      window, call[Driver].nct_anchor, num)
                        /\ len = num =>
                              /\ Len(next) = num
                              /\ next = <<call[Driver].nct_anchor>> \o
                                           SubSeq(window, 1, num - 1)

\* The update has been applied to a full window of two different roots,
\* with a new root that is neither.
C17_Witness ==
    /\ call[Driver].op = "commit_block" /\ call[Driver].pc = "commit"
    /\ Len(valid_anchors_tx) = NUM_RECENT_ANCHORS
    /\ valid_anchors_tx[1] # valid_anchors_tx[NUM_RECENT_ANCHORS]
    /\ call[Driver].nct_anchor \notin Range(valid_anchors_tx)
    /\ Len(call[Driver].valid_anchors) = NUM_RECENT_ANCHORS

\* The rows the transaction of caller p's commit_block added to the rate
\* tables.
RatesPersisted(p) ==
    [base_rates |-> db.base_rates \ call[p].pre.db.base_rates,
     validator_rates |-> db.validator_rates \ call[p].pre.db.validator_rates]

\* C18, as stated: a successful commit_block publishes a next-rate-data map
\* if and only if its transaction inserted rate rows, for every PendingBlock
\* (one with next validator rates but no next base rate included); and what
\* it publishes is what it inserted: each published RateData has its
\* validator_rates row, and the block's base rate its base_rates row.
C18_PublishedRatesPersisted ==
    \A p \in Procs :
        Returned(p, "commit_block") /\ call[p].ret.ok =>
            LET published == call[p].next_rate_data # None
                persisted == RatesPersisted(p)
            IN  /\ published <=>
                      /\ persisted.validator_rates # {}
                      /\ persisted.base_rates # {}
                /\ published =>
                      /\ next_rate_data_tx = call[p].next_rate_data[1]
                      /\ persisted.validator_rates =
                            { [identity_key |-> ik,
                               epoch |-> next_rate_data_tx[ik].epoch_index,
                               validator_reward_rate |->
                                  next_rate_data_tx[ik].validator_reward_rate,
                               validator_exchange_rate |->
                                  next_rate_data_tx[ik].validator_exchange_rate] :
                                ik \in DOMAIN next_rate_data_tx }
                      /\ call[p].arg.next_base_rate # None
                      /\ persisted.base_rates =
                            {[epoch |->
                                 call[p].arg.next_base_rate[1].epoch_index,
                              base_reward_rate |->
                                 call[p].arg.next_base_rate[1].base_reward_rate,
                              base_exchange_rate |->
                                 call[p].arg.next_base_rate[1].base_exchange_rate]}

\* A block with next validator rates and no next base rate has been
\* committed: its rates are on the channel, and no rate row was inserted.
C18_Witness ==
    /\ Returned(Driver, "commit_block")
    /\ call[Driver].ret.ok
    /\ call[Driver].arg.next_rates # None
    /\ call[Driver].arg.next_base_rate = None
    /\ next_rate_data_tx = CollectNextRateData(call[Driver].arg)[1]
    /\ next_rate_data_tx # call[Driver].pre.channels.next_rate_data
    /\ RatesPersisted(Driver).validator_rates = {}
    /\ RatesPersisted(Driver).base_rates = {}

\* C19: with one call at a time and heights in order, whenever no call is in
\* flight the published window holds the nct_anchor of the
\* NUM_RECENT_ANCHORS highest blocks rows, newest first, and the published
\* height is the highest height of the blocks table (0 for none); and an
\* init_caches that has returned successfully has published the window and
\* the height that were published before it.
C19_WindowMatchesLedger ==
    /\ (\A p \in Procs : call[p].op = "idle") =>
          /\ valid_anchors_tx = recent_anchors(db, NUM_RECENT_ANCHORS)
          /\ height_tx = TopHeight(db)
    /\ \A p \in Procs :
          Returned(p, "init_caches") /\ call[p].ret.ok =>
             /\ valid_anchors_tx = call[p].valid_anchors
             /\ valid_anchors_tx = recent_anchors(db, NUM_RECENT_ANCHORS)
             /\ valid_anchors_tx = call[p].pre.channels.valid_anchors
             /\ height_tx = call[p].height[1]
             /\ height_tx = call[p].pre.channels.height

\* init_caches has returned on a chain of more blocks than the window
\* holds, the last two with different roots: the window is full.
C19_Witness ==
    /\ Returned(Driver, "init_caches")
    /\ call[Driver].ret.ok
    /\ Cardinality(db.blocks) > NUM_RECENT_ANCHORS
    /\ Len(valid_anchors_tx) = NUM_RECENT_ANCHORS
    /\ valid_anchors_tx[1] # valid_anchors_tx[2]

\* C20: when a commit_block at height h has returned successfully, the
\* blocks table has one row for h and the authenticated store one version h;
\* the value returned is the row's app_hash and is the root of the store at
\* version h; and the row's nct_anchor is the value the store holds at
\* version h under the NoteCommitmentAnchor key and is the front of the
\* published window.
C20_AppHashConsistent ==
    \A p \in Procs :
        Returned(p, "commit_block") /\ call[p].ret.ok =>
            LET h == call[p].arg.height
                rows == { b \in db.blocks : b.height = h }
                versions == { n \in db.jmt : n.version = h }
            IN  /\ Cardinality(rows) = 1
                /\ Cardinality(versions) = 1
                /\ \A b \in rows, n \in versions :
                      /\ call[p].ret.value = b.app_hash
                      /\ b.app_hash = JmtRootHash(n.kv)
                      /\ { e[2] : e \in { e \in n.kv :
                                  e[1] = NoteCommitmentAnchorKey } } =
                            {b.nct_anchor}
                      /\ Len(valid_anchors_tx) >= 1
                      /\ b.nct_anchor = valid_anchors_tx[1]

\* The second block, with a note, has been committed: the root, hence the
\* app hash, differs from the first block's.
C20_Witness ==
    /\ Returned(Driver, "commit_block")
    /\ call[Driver].ret.ok
    /\ call[Driver].arg.height = 2
    /\ call[Driver].arg.notes # {}
    /\ \A b \in call[Driver].pre.db.blocks :
          b.app_hash # call[Driver].ret.value
====
